---- MODULE Spec2Model ----
(***************************************************************************)
(* A model of backend/server.js: the file-backed document store of the     *)
(* mapping backend, with its audit log and usage counters.                 *)
(*                                                                         *)
(* State: the seven JSON data files, the wall clock, and the request that  *)
(* was answered last together with its response.  One action per Express   *)
(* handler; every handler is synchronous (readFileSync / writeFileSync and *)
(* no await), so Node runs the stats middleware and the handler of one     *)
(* request to completion before any other request's code runs.             *)
(***************************************************************************)
EXTENDS Integers, Sequences, FiniteSets, TLC

VARIABLES
  fs,        \* file name -> parsed JSON content of the data file
  clock,     \* Date.now(), in milliseconds
  req,       \* the request answered last
  resp,      \* its response: status and body
  served,    \* number of requests answered so far
  calls,     \* history: "VERB path" -> number of incRequest calls made with it
  inflight,  \* requests whose body has been parsed and that await their handler
  budget,    \* number of requests the run may answer
  seen       \* history: "VERB path" -> highest value stats.json has held for it

vars == <<fs, clock, req, resp, served, calls, inflight, budget, seen>>

(***************************************************************************)
(* Bounds of the model.                                                    *)
(***************************************************************************)
MaxRequests == 2
MaxCrudRequests == 3
MaxHydroRequests == 4
MaxLogRequests == 502
MaxConcRequests == 3
MaxTicks == 1
StartClock == 35

(***************************************************************************)
(* JavaScript values.  A value carries its typeof tag, so that the code's  *)
(* typeof tests, truthiness tests and === undefined tests are computed     *)
(* rather than assumed.  A property that is absent reads as undefined.     *)
(***************************************************************************)
Undef == [t |-> "undefined", v |-> 0]
Null == [t |-> "null", v |-> 0]
Str(s) == [t |-> "string", v |-> s]
Num(n) == [t |-> "number", v |-> n]
Bool(b) == [t |-> "boolean", v |-> b]
Arr(s) == [t |-> "array", v |-> s]
Obj(r) == [t |-> "object", v |-> r]

\* typeof x === 'number'
IsNumber(x) == x.t = "number"
\* typeof x === 'string'
IsString(x) == x.t = "string"
\* Array.isArray(x)
IsArray(x) == x.t = "array"

\* ToBoolean: undefined, null, false, 0 and "" are falsy, everything else truthy
Truthy(x) ==
  CASE x.t = "undefined" -> FALSE
    [] x.t = "null" -> FALSE
    [] x.t = "boolean" -> x.v
    [] x.t = "number" -> x.v # 0
    [] x.t = "string" -> x.v # ""
    [] OTHER -> TRUE

\* a || b
OrElse(a, b) == IF Truthy(a) THEN a ELSE b

\* a destructuring default: { x = d } = body
Default(x, d) == IF x = Undef THEN d ELSE x

(***************************************************************************)
(* Number.prototype.toString(36) and Date.prototype.toISOString.           *)
(***************************************************************************)
Radix == 36

Digit36 ==
  <<"0", "1", "2", "3", "4", "5", "6", "7", "8", "9", "a", "b", "c", "d", "e",
    "f", "g", "h", "i", "j", "k", "l", "m", "n", "o", "p", "q", "r", "s", "t",
    "u", "v", "w", "x", "y", "z">>

RECURSIVE ToString36(_)
ToString36(n) ==
  IF n < Radix THEN Digit36[n + 1]
  ELSE ToString36(n \div Radix) \o Digit36[(n % Radix) + 1]

\* the instant `ms` milliseconds after the epoch, within the epoch's first minute
ToISOString(ms) ==
  LET d(k) == Digit36[((ms \div k) % 10) + 1]
  IN "1970-01-01T00:00:" \o d(10000) \o d(1000) \o "." \o d(100) \o d(10) \o d(1) \o "Z"

(***************************************************************************)
(* The data files (server.js 12-18) and their JSON content.                *)
(***************************************************************************)
poisFile == "pois.json"
routesFile == "routes.json"
logsFile == "logs.json"
statsFile == "stats.json"
attractionsFile == "attractions.json"
hydrophoneFile == "hydrophone.json"
hydroHistoryFile == "hydro_history.json"

Files ==
  {poisFile, routesFile, logsFile, statsFile, attractionsFile, hydrophoneFile,
   hydroHistoryFile}

\* content of a file that is missing or does not parse as JSON
Unreadable == [t |-> "unreadable", v |-> 0]

\* server.js 25-27: every missing file is created as '[]', stats.json as '{}'
InitialFiles == [f \in Files |-> IF f = statsFile THEN Obj(<<>>) ELSE Arr(<<>>)]

\* readJson whose catch branch returns [] whatever fallback the caller gave
readJsonEmptyList(files, file, fallback) ==
  IF files[file] = Unreadable THEN Arr(<<>>) ELSE files[file]

\* JSON.parse(fs.readFileSync(file)) with the catch-all fallback
readJson(files, file, fallback) ==
  IF files[file] = Unreadable THEN fallback ELSE files[file]

\* fs.writeFileSync(file, JSON.stringify(data)): the whole file is replaced
writeJson(files, file, data) == [files EXCEPT ![file] = data]

(***************************************************************************)
(* Usage counters and audit log.                                           *)
(***************************************************************************)
StatsKey(pathname, method) == method \o " " \o pathname

\* stats[key] || 0, on the mapping held by a parsed stats object
Count(stats, key) == IF key \in DOMAIN stats THEN stats[key] ELSE 0

\* incRequest starting from an empty mapping instead of the stored one
incRequestFromEmpty(files, pathname, method) ==
  writeJson(files, statsFile, Obj([k \in {StatsKey(pathname, method)} |-> 1]))

incRequest(files, pathname, method) ==
  LET stats == readJson(files, statsFile, Obj(<<>>)).v
      key == StatsKey(pathname, method)
      next == [k \in (DOMAIN stats) \cup {key} |->
                 IF k = key THEN Count(stats, key) + 1 ELSE stats[k]]
  IN writeJson(files, statsFile, Obj(next))

LogCap == 500

\* the array is never cut
Untruncated(s, n) == s

\* the first n elements of s (logs.length = n on a longer array)
Truncate(s, n) == IF Len(s) > n THEN SubSeq(s, 1, n) ELSE s

\* logOp that pushes the entry at the end of the log
logOpAppend(files, now, type, detail) ==
  LET logs == readJson(files, logsFile, Arr(<<>>)).v
      entry == [id |-> now, type |-> type, detail |-> detail, ts |-> ToISOString(now)]
  IN writeJson(files, logsFile, Arr(Truncate(Append(logs, entry), LogCap)))

logOp(files, now, type, detail) ==
  LET logs == readJson(files, logsFile, Arr(<<>>)).v
      entry == [id |-> now, type |-> type, detail |-> detail, ts |-> ToISOString(now)]
  IN writeJson(files, logsFile, Arr(Truncate(<<entry>> \o logs, LogCap)))

readPois(files) == readJson(files, poisFile, Arr(<<>>))
writePois(files, list) == writeJson(files, poisFile, list)
readRoutes(files) == readJson(files, routesFile, Arr(<<>>))
writeRoutes(files, list) == writeJson(files, routesFile, list)
readAttractions(files) == readJson(files, attractionsFile, Arr(<<>>))
writeAttractions(files, list) == writeJson(files, attractionsFile, list)

\* v && typeof v === 'object' ? v : {}   (typeof of an array is 'object' too)
readHydrophone(files) ==
  LET v == readJson(files, hydrophoneFile, Obj(<<>>))
  IN IF v.t \in {"object", "array"} THEN v ELSE Obj(<<>>)
writeHydrophone(files, obj) == writeJson(files, hydrophoneFile, OrElse(obj, Obj(<<>>)))
readHydroHistory(files) == readJson(files, hydroHistoryFile, Arr(<<>>))
writeHydroHistory(files, list) ==
  writeJson(files, hydroHistoryFile, IF IsArray(list) THEN list ELSE Arr(<<>>))

(***************************************************************************)
(* Array helpers.                                                          *)
(***************************************************************************)
\* list.findIndex(x => x.id === id): the first position, 0 when there is none
FindIndex(list, id) ==
  IF \E i \in 1..Len(list) : list[i].id = id
  THEN CHOOSE i \in 1..Len(list) :
         list[i].id = id /\ \A j \in 1..(i - 1) : list[j].id # id
  ELSE 0

\* list.filter(x => x.id !== id)
RECURSIVE FilterOut(_, _)
FilterOut(list, id) ==
  IF list = <<>> THEN <<>>
  ELSE IF Head(list).id = id THEN FilterOut(Tail(list), id)
  ELSE <<Head(list)>> \o FilterOut(Tail(list), id)

Ids(list) == {list[i].id : i \in 1..Len(list)}

(***************************************************************************)
(* Requests and responses.                                                 *)
(***************************************************************************)
BodyFields ==
  {"id", "name", "lng", "lat", "address", "tags", "desc", "coords", "longitude",
   "latitude", "heading", "temperature", "humidity", "pressure", "salinity",
   "shipDetected", "shipType", "timestamp", "createdAt"}

\* the body {} : every property reads as undefined
NoFields == [k \in BodyFields |-> Undef]

\* the properties a body defines, and the value a body gives a property
Defined(body) == [k \in {f \in DOMAIN body : body[f] # Undef} |-> body[k]]
Field(body, k) == IF k \in DOMAIN body THEN body[k] ELSE Undef
Destructure(body) == [k \in BodyFields |-> Field(body, k)]

Request(method, path, op, id, body) ==
  [method |-> method, path |-> path, op |-> op, id |-> id, body |-> Defined(body)]

NoRequest == Request("", "", "none", "", NoFields)
NoResponse == [status |-> 0, body |-> Undef]

Message(m) == Obj([message |-> m])
InvalidPayload == [status |-> 400, body |-> Message("Invalid payload")]
NotFound == [status |-> 404, body |-> Message("Not found")]

\* the server has just started (server.js 20-27) and may answer n requests
Started(n) ==
  /\ fs = InitialFiles
  /\ clock = StartClock
  /\ req = NoRequest
  /\ resp = NoResponse
  /\ served = 0
  /\ calls = <<>>
  /\ inflight = {}
  /\ budget = n
  /\ seen = <<>>

Init == Started(MaxRequests)

\* time passes between two requests
Tick ==
  /\ clock < StartClock + MaxTicks
  /\ clock' = clock + 1
  /\ UNCHANGED <<fs, req, resp, served, calls, inflight, budget, seen>>

\* the files as the stats middleware (server.js 74) leaves them for request r
Counted(r) == incRequest(fs, r.path, r.method)

\* The request r went through the stats middleware and then to its route
\* handler, which ran on Counted(r) and yielded out: the files it leaves and
\* its response.
Run(r, out) ==
  LET key == StatsKey(r.path, r.method)
  IN /\ served < budget
     /\ fs' = out.files
     /\ resp' = out.resp
     /\ req' = r
     /\ served' = served + 1
     /\ calls' = [k \in (DOMAIN calls) \cup {key} |->
                    IF k = key THEN Count(calls, key) + 1 ELSE calls[k]]
     /\ seen' = LET stats == out.files[statsFile].v
                IN [k \in (DOMAIN seen) \cup (DOMAIN stats) |->
                      IF Count(stats, k) > Count(seen, k) THEN stats[k] ELSE seen[k]]
     /\ UNCHANGED <<clock, budget>>

\* a request that is answered in the step in which it arrives
Routed(r, out) == Run(r, out) /\ UNCHANGED inflight

Reply(files, status, body) == [files |-> files, resp |-> [status |-> status, body |-> body]]

(***************************************************************************)
(* POIs (server.js 121-165).                                               *)
(***************************************************************************)
PoiFields == {"name", "lng", "lat", "address", "tags"}

\* { ...cur, ...body }: every property the body defines is copied, the id too
PatchSpread(cur, body, fields) ==
  [k \in DOMAIN cur |->
     IF body[k] = Undef THEN cur[k] ELSE IF k = "id" THEN body[k].v ELSE body[k]]

\* the listed fields are replaced by the body's, defined or not
PatchReplace(cur, body, fields) ==
  [k \in DOMAIN cur |-> IF k \in fields THEN body[k] ELSE cur[k]]

\* { ...cur } with every listed field that the body defines overwritten
Patch(cur, body, fields) ==
  [k \in DOMAIN cur |-> IF k \in fields /\ body[k] # Undef THEN body[k] ELSE cur[k]]

postPois(files, now, body) ==
  LET address == Default(body.address, Str(""))
      tags == Default(body.tags, Arr(<<>>))
  IN IF ~Truthy(body.name) \/ ~IsNumber(body.lng) \/ ~IsNumber(body.lat)
     THEN [files |-> files, resp |-> InvalidPayload]
     ELSE LET list == readPois(files)
              item == [id |-> ToString36(now), name |-> body.name, lng |-> body.lng,
                       lat |-> body.lat, address |-> address, tags |-> tags]
              f1 == writePois(files, Arr(Append(list.v, item)))
              f2 == logOp(f1, now, "poi_create", [id |-> item.id, name |-> body.name])
          IN Reply(f2, 201, Obj(item))

putPois(files, now, id, body) ==
  LET list == readPois(files)
      idx == FindIndex(list.v, id)
  IN IF idx = 0 THEN [files |-> files, resp |-> NotFound]
     ELSE LET next == Patch(list.v[idx], body, PoiFields)
              f1 == writePois(files, Arr([list.v EXCEPT ![idx] = next]))
              f2 == logOp(f1, now, "poi_update", [id |-> id])
          IN Reply(f2, 200, Obj(next))

\* deletePois that writes and logs before it looks at the lengths
deletePoisWriteFirst(files, now, id) ==
  LET list == readPois(files)
      next == FilterOut(list.v, id)
      f1 == writePois(files, Arr(next))
      f2 == logOp(f1, now, "poi_delete", [id |-> id])
  IN IF Len(next) = Len(list.v) THEN [files |-> f2, resp |-> NotFound]
     ELSE Reply(f2, 204, Undef)

deletePois(files, now, id) ==
  LET list == readPois(files)
      next == FilterOut(list.v, id)
  IN IF Len(next) = Len(list.v) THEN [files |-> files, resp |-> NotFound]
     ELSE LET f1 == writePois(files, Arr(next))
              f2 == logOp(f1, now, "poi_delete", [id |-> id])
          IN Reply(f2, 204, Undef)

\* ids a request may name: every id stored in the file, and one that is not
Missing == "nope"
IdsOf(file) == Ids(readJson(fs, file, Arr(<<>>)).v) \cup {Missing}

PoiCreateBodies ==
  { [NoFields EXCEPT !.name = Str("Pier"), !.lng = Num(120), !.lat = Num(30)],
    [NoFields EXCEPT !.lng = Num(120), !.lat = Num(30)],
    [NoFields EXCEPT !.name = Str(""), !.lng = Num(120), !.lat = Num(30)],
    [NoFields EXCEPT !.name = Num(7), !.lng = Num(120), !.lat = Num(30)],
    [NoFields EXCEPT !.name = Str("Pier"), !.lng = Str("120"), !.lat = Num(30)],
    [NoFields EXCEPT !.name = Str("Pier"), !.lng = Num(120)] }

PoiUpdateBodies ==
  { NoFields,
    [NoFields EXCEPT !.tags = Arr(<<"park">>)],
    [NoFields EXCEPT !.name = Str("Quay"), !.id = Str("hack")] }

PostPois ==
  \E b \in PoiCreateBodies :
    LET r == Request("POST", "/api/pois", "poi_create", "", b)
    IN Routed(r, postPois(Counted(r), clock, b))

PutPois ==
  \E id \in IdsOf(poisFile), b \in PoiUpdateBodies :
    LET r == Request("PUT", "/api/pois/" \o id, "poi_update", id, b)
    IN Routed(r, putPois(Counted(r), clock, id, b))

DeletePois ==
  \E id \in IdsOf(poisFile) :
    LET r == Request("DELETE", "/api/pois/" \o id, "poi_delete", id, NoFields)
    IN Routed(r, deletePois(Counted(r), clock, id))

(***************************************************************************)
(* Array.prototype.sort with a comparator, as an insertion sort: each      *)
(* element in turn is the pivot `a` of the comparator and moves left past  *)
(* every element `b` with cmp(a, b) < 0.                                   *)
(***************************************************************************)
\* The strings the model's requests carry as names, in collation order.
Collation == <<"", "Loop", "Pier", "Quay", "rec", "Ring", "Tower">>
Rank(s) == CHOOSE i \in 1..Len(Collation) : Collation[i] = s

\* a.localeCompare(b) for a string a; b is converted to a string first
LocaleCompare(a, b) ==
  IF Rank(a) < Rank(b) THEN -1 ELSE IF Rank(a) > Rank(b) THEN 1 ELSE 0

\* a.name.localeCompare is only a function when a.name is a string
CanCompareNames(list) == \A i \in 2..Len(list) : IsString(list[i].name)
ByName(a, b) == IF IsString(b.name) THEN LocaleCompare(a.name.v, b.name.v) ELSE 1

\* The instant an ISO string denotes.  ISO strings have fixed-width fields from
\* the most significant down, so a < b on the strings is < on the instants.
ParseISO(s) ==
  CHOOSE ms \in StartClock..(StartClock + MaxTicks) : ToISOString(ms) = s
ByCreatedAtDesc(a, b) == IF ParseISO(a.createdAt) < ParseISO(b.createdAt) THEN 1 ELSE -1

\* the two comparators the list handlers pass to sort
Compare(order, a, b) == IF order = "name" THEN ByName(a, b) ELSE ByCreatedAtDesc(a, b)

RECURSIVE InsertSorted(_, _, _)
InsertSorted(sorted, a, order) ==
  IF sorted = <<>> THEN <<a>>
  ELSE LET b == sorted[Len(sorted)]
       IN IF Compare(order, a, b) < 0
          THEN Append(InsertSorted(SubSeq(sorted, 1, Len(sorted) - 1), a, order), b)
          ELSE Append(sorted, a)

RECURSIVE SortPrefix(_, _, _)
SortPrefix(list, n, order) ==
  IF n = 0 THEN <<>>
  ELSE InsertSorted(SortPrefix(list, n - 1, order), list[n], order)

Sort(list, order) == SortPrefix(list, Len(list), order)

ServerError == [status |-> 500, body |-> Message("Internal Server Error")]

getPois(files, now) ==
  LET list == readPois(files).v
  IN IF CanCompareNames(list)
     THEN Reply(files, 200, Arr(Sort(list, "name")))
     ELSE [files |-> files, resp |-> ServerError]

GetPois ==
  LET r == Request("GET", "/api/pois", "poi_list", "", NoFields)
  IN Routed(r, getPois(Counted(r), clock))

(***************************************************************************)
(* Routes (server.js 77-118).                                              *)
(***************************************************************************)
RouteFields == {"name", "coords"}

getRoutes(files, now) ==
  Reply(files, 200, Arr(Sort(readRoutes(files).v, "createdAtDesc")))

postRoutes(files, now, body) ==
  IF ~Truthy(body.name) \/ ~IsArray(body.coords) \/ Len(body.coords.v) = 0
  THEN [files |-> files, resp |-> InvalidPayload]
  ELSE LET list == readRoutes(files)
           item == [id |-> ToString36(now), name |-> body.name, coords |-> body.coords,
                    createdAt |-> ToISOString(now)]
           f1 == writeRoutes(files, Arr(Append(list.v, item)))
           f2 == logOp(f1, now, "route_create", [id |-> item.id, name |-> body.name])
       IN Reply(f2, 201, Obj(item))

\* putRoutes that writes back the updated route alone
putRoutesAlone(files, now, id, body) ==
  LET list == readRoutes(files)
      idx == FindIndex(list.v, id)
  IN IF idx = 0 THEN [files |-> files, resp |-> NotFound]
     ELSE LET next == Patch(list.v[idx], body, RouteFields)
              f1 == writeRoutes(files, Arr(<<next>>))
              f2 == logOp(f1, now, "route_update", [id |-> id])
          IN Reply(f2, 200, Obj(next))

putRoutes(files, now, id, body) ==
  LET list == readRoutes(files)
      idx == FindIndex(list.v, id)
  IN IF idx = 0 THEN [files |-> files, resp |-> NotFound]
     ELSE LET next == Patch(list.v[idx], body, RouteFields)
              f1 == writeRoutes(files, Arr([list.v EXCEPT ![idx] = next]))
              f2 == logOp(f1, now, "route_update", [id |-> id])
          IN Reply(f2, 200, Obj(next))

deleteRoutes(files, now, id) ==
  LET list == readRoutes(files)
      next == FilterOut(list.v, id)
  IN IF Len(next) = Len(list.v) THEN [files |-> files, resp |-> NotFound]
     ELSE LET f1 == writeRoutes(files, Arr(next))
              f2 == logOp(f1, now, "route_delete", [id |-> id])
          IN Reply(f2, 204, Undef)

RouteCreateBodies ==
  { [NoFields EXCEPT !.name = Str("Loop"), !.coords = Arr(<<<<1, 2>>, <<3, 4>>>>)],
    [NoFields EXCEPT !.name = Str("Loop")],
    [NoFields EXCEPT !.name = Str("Loop"), !.coords = Arr(<<>>)],
    [NoFields EXCEPT !.coords = Arr(<<<<1, 2>>, <<3, 4>>>>)] }

RouteUpdateBodies ==
  { [NoFields EXCEPT !.name = Str("Ring"), !.createdAt = Str("2024-05-01T00:00:00.000Z")],
    [NoFields EXCEPT !.coords = Arr(<<>>), !.id = Str("hack")] }

GetRoutes ==
  LET r == Request("GET", "/api/routes", "route_list", "", NoFields)
  IN Routed(r, getRoutes(Counted(r), clock))

PostRoutes ==
  \E b \in RouteCreateBodies :
    LET r == Request("POST", "/api/routes", "route_create", "", b)
    IN Routed(r, postRoutes(Counted(r), clock, b))

PutRoutes ==
  \E id \in IdsOf(routesFile), b \in RouteUpdateBodies :
    LET r == Request("PUT", "/api/routes/" \o id, "route_update", id, b)
    IN Routed(r, putRoutes(Counted(r), clock, id, b))

DeleteRoutes ==
  \E id \in IdsOf(routesFile) :
    LET r == Request("DELETE", "/api/routes/" \o id, "route_delete", id, NoFields)
    IN Routed(r, deleteRoutes(Counted(r), clock, id))

(***************************************************************************)
(* Attractions (server.js 168-206).                                        *)
(***************************************************************************)
AttractionFields == {"name", "lng", "lat", "address", "tags", "desc"}

getAttractions(files, now) ==
  LET list == readAttractions(files).v
  IN IF CanCompareNames(list)
     THEN Reply(files, 200, Arr(Sort(list, "name")))
     ELSE [files |-> files, resp |-> ServerError]

postAttractions(files, now, body) ==
  LET address == Default(body.address, Str(""))
      tags == Default(body.tags, Arr(<<>>))
      desc == Default(body.desc, Str(""))
  IN IF ~Truthy(body.name) THEN [files |-> files, resp |-> InvalidPayload]
     ELSE LET list == readAttractions(files)
              item == [id |-> ToString36(now), name |-> body.name, lng |-> body.lng,
                       lat |-> body.lat, address |-> address, tags |-> tags,
                       desc |-> desc]
              f1 == writeAttractions(files, Arr(Append(list.v, item)))
              f2 == logOp(f1, now, "attraction_create", [id |-> item.id, name |-> body.name])
          IN Reply(f2, 201, Obj(item))

putAttractions(files, now, id, body) ==
  LET list == readAttractions(files)
      idx == FindIndex(list.v, id)
  IN IF idx = 0 THEN [files |-> files, resp |-> NotFound]
     ELSE LET next == Patch(list.v[idx], body, AttractionFields)
              f1 == writeAttractions(files, Arr([list.v EXCEPT ![idx] = next]))
              f2 == logOp(f1, now, "attraction_update", [id |-> id])
          IN Reply(f2, 200, Obj(next))

deleteAttractions(files, now, id) ==
  LET list == readAttractions(files)
      next == FilterOut(list.v, id)
  IN IF Len(next) = Len(list.v) THEN [files |-> files, resp |-> NotFound]
     ELSE LET f1 == writeAttractions(files, Arr(next))
              f2 == logOp(f1, now, "attraction_delete", [id |-> id])
          IN Reply(f2, 204, Undef)

AttractionCreateBodies ==
  { [NoFields EXCEPT !.name = Str("Tower")],
    NoFields }

AttractionUpdateBodies ==
  { [NoFields EXCEPT !.desc = Str("tall"), !.id = Str("hack")],
    [NoFields EXCEPT !.name = Null, !.lng = Num(121)] }

GetAttractions ==
  LET r == Request("GET", "/api/attractions", "attraction_list", "", NoFields)
  IN Routed(r, getAttractions(Counted(r), clock))

PostAttractions ==
  \E b \in AttractionCreateBodies :
    LET r == Request("POST", "/api/attractions", "attraction_create", "", b)
    IN Routed(r, postAttractions(Counted(r), clock, b))

PutAttractions ==
  \E id \in IdsOf(attractionsFile), b \in AttractionUpdateBodies :
    LET r == Request("PUT", "/api/attractions/" \o id, "attraction_update", id, b)
    IN Routed(r, putAttractions(Counted(r), clock, id, b))

DeleteAttractions ==
  \E id \in IdsOf(attractionsFile) :
    LET r == Request("DELETE", "/api/attractions/" \o id, "attraction_delete", id, NoFields)
    IN Routed(r, deleteAttractions(Counted(r), clock, id))

(***************************************************************************)
(* Hydrophone snapshot (server.js 209-249).                                *)
(***************************************************************************)
getHydrophoneLatest(files, now) == Reply(files, 200, readHydrophone(files))

\* typeof x === 'number' ? x : null
NumberOrNull(x) == IF IsNumber(x) THEN x ELSE Null

postHydrophoneUpdate(files, now, body) ==
  IF ~IsNumber(body.longitude) \/ ~IsNumber(body.latitude)
  THEN [files |-> files,
        resp |-> [status |-> 400,
                  body |-> Message("Invalid payload: longitude/latitude must be numbers")]]
  ELSE LET payload ==
             [longitude |-> body.longitude,
              latitude |-> body.latitude,
              heading |-> NumberOrNull(body.heading),
              temperature |-> NumberOrNull(body.temperature),
              humidity |-> NumberOrNull(body.humidity),
              pressure |-> NumberOrNull(body.pressure),
              salinity |-> NumberOrNull(body.salinity),
              shipDetected |-> IF body.shipDetected.t = "boolean" THEN body.shipDetected
                               ELSE Bool(Truthy(body.shipDetected)),
              shipType |-> OrElse(body.shipType, Str("")),
              timestamp |-> OrElse(body.timestamp, Str(ToISOString(now)))]
           f1 == writeHydrophone(files, Obj(payload))
           f2 == logOp(f1, now, "hydrophone_update", [ts |-> payload.timestamp])
       IN Reply(f2, 201, Obj([ok |-> TRUE]))

SnapshotBodies ==
  { [NoFields EXCEPT !.longitude = Num(1), !.latitude = Num(2)],
    [NoFields EXCEPT !.longitude = Num(5), !.latitude = Num(6), !.heading = Str("N"),
                     !.shipDetected = Num(1), !.shipType = Num(9),
                     !.timestamp = Str("2024-05-01T00:00:00.000Z")],
    [NoFields EXCEPT !.longitude = Str("1"), !.latitude = Num(2)] }

GetHydrophoneLatest ==
  LET r == Request("GET", "/api/hydrophone/latest", "hydrophone_latest", "", NoFields)
  IN Routed(r, getHydrophoneLatest(Counted(r), clock))

PostHydrophoneUpdateOf(b) ==
  LET r == Request("POST", "/api/hydrophone/update", "hydrophone_update", "", b)
  IN Routed(r, postHydrophoneUpdate(Counted(r), clock, b))

PostHydrophoneUpdate == \E b \in SnapshotBodies : PostHydrophoneUpdateOf(b)

(***************************************************************************)
(* Hydrophone history (server.js 252-324).                                 *)
(***************************************************************************)
\* the label that stands for the placeholder name of server.js 277
Unnamed == "unnamed"

\* Math.random().toString(36).slice(2, 6): up to four base-36 digits
RandomSuffixes == {"4fzz", "i"}

getHydroHistory(files, now) ==
  Reply(files, 200, Arr(Sort(readHydroHistory(files).v, "createdAtDesc")))

\* postHydroHistory that stamps sentAt when it creates the record
postHydroHistoryStamped(files, now, random, body) ==
  IF ~IsNumber(body.longitude) \/ ~IsNumber(body.latitude)
  THEN [files |-> files,
        resp |-> [status |-> 400,
                  body |-> Message("Invalid payload: longitude/latitude must be numbers")]]
  ELSE LET list == readHydroHistory(files)
           item ==
             [id |-> ToString36(now) \o random,
              name |-> OrElse(Default(body.name, Str("")), Str(Unnamed)),
              longitude |-> body.longitude,
              latitude |-> body.latitude,
              heading |-> Default(body.heading, Null),
              temperature |-> Default(body.temperature, Null),
              humidity |-> Default(body.humidity, Null),
              pressure |-> Default(body.pressure, Null),
              salinity |-> Default(body.salinity, Null),
              shipDetected |-> Bool(Truthy(Default(body.shipDetected, Bool(FALSE)))),
              shipType |-> OrElse(Default(body.shipType, Str("")), Str("")),
              timestamp |-> OrElse(Default(body.timestamp, Null), Str(ToISOString(now))),
              createdAt |-> ToISOString(now),
              sentAt |-> Str(ToISOString(now))]
           f1 == writeHydroHistory(files, Arr(Append(list.v, item)))
           f2 == logOp(f1, now, "hydro_history_create", [id |-> item.id, name |-> item.name])
       IN Reply(f2, 201, Obj(item))

postHydroHistory(files, now, random, body) ==
  IF ~IsNumber(body.longitude) \/ ~IsNumber(body.latitude)
  THEN [files |-> files,
        resp |-> [status |-> 400,
                  body |-> Message("Invalid payload: longitude/latitude must be numbers")]]
  ELSE LET list == readHydroHistory(files)
           item ==
             [id |-> ToString36(now) \o random,
              name |-> OrElse(Default(body.name, Str("")), Str(Unnamed)),
              longitude |-> body.longitude,
              latitude |-> body.latitude,
              heading |-> Default(body.heading, Null),
              temperature |-> Default(body.temperature, Null),
              humidity |-> Default(body.humidity, Null),
              pressure |-> Default(body.pressure, Null),
              salinity |-> Default(body.salinity, Null),
              shipDetected |-> Bool(Truthy(Default(body.shipDetected, Bool(FALSE)))),
              shipType |-> OrElse(Default(body.shipType, Str("")), Str("")),
              timestamp |-> OrElse(Default(body.timestamp, Null), Str(ToISOString(now))),
              createdAt |-> ToISOString(now),
              sentAt |-> Null]
           f1 == writeHydroHistory(files, Arr(Append(list.v, item)))
           f2 == logOp(f1, now, "hydro_history_create", [id |-> item.id, name |-> item.name])
       IN Reply(f2, 201, Obj(item))

deleteHydroHistory(files, now, id) ==
  LET list == readHydroHistory(files)
      next == FilterOut(list.v, id)
  IN IF Len(next) = Len(list.v) THEN [files |-> files, resp |-> NotFound]
     ELSE LET f1 == writeHydroHistory(files, Arr(next))
              f2 == logOp(f1, now, "hydro_history_delete", [id |-> id])
          IN Reply(f2, 204, Undef)

\* sendHydroHistory that stamps sentAt on every record of the history
sendHydroHistoryStampAll(files, now, id) ==
  LET list == readHydroHistory(files)
      idx == FindIndex(list.v, id)
  IN IF idx = 0 THEN [files |-> files, resp |-> NotFound]
     ELSE LET item == list.v[idx]
              payload ==
                [longitude |-> item.longitude,
                 latitude |-> item.latitude,
                 heading |-> item.heading,
                 temperature |-> item.temperature,
                 humidity |-> item.humidity,
                 pressure |-> item.pressure,
                 salinity |-> item.salinity,
                 shipDetected |-> Bool(Truthy(item.shipDetected)),
                 shipType |-> OrElse(item.shipType, Str("")),
                 timestamp |-> Str(ToISOString(now))]
              f1 == writeHydrophone(files, Obj(payload))
              f2 == writeHydroHistory(f1,
                      Arr([i \in 1..Len(list.v) |->
                             [list.v[i] EXCEPT !.sentAt = payload.timestamp]]))
              f3 == logOp(f2, now, "hydro_history_send", [id |-> id, ts |-> payload.timestamp])
          IN Reply(f3, 200, Obj([ok |-> TRUE, applied |-> payload]))

sendHydroHistory(files, now, id) ==
  LET list == readHydroHistory(files)
      idx == FindIndex(list.v, id)
  IN IF idx = 0 THEN [files |-> files, resp |-> NotFound]
     ELSE LET item == list.v[idx]
              payload ==
                [longitude |-> item.longitude,
                 latitude |-> item.latitude,
                 heading |-> item.heading,
                 temperature |-> item.temperature,
                 humidity |-> item.humidity,
                 pressure |-> item.pressure,
                 salinity |-> item.salinity,
                 shipDetected |-> Bool(Truthy(item.shipDetected)),
                 shipType |-> OrElse(item.shipType, Str("")),
                 timestamp |-> Str(ToISOString(now))]
              f1 == writeHydrophone(files, Obj(payload))
              sent == [item EXCEPT !.sentAt = payload.timestamp]
              f2 == writeHydroHistory(f1, Arr([list.v EXCEPT ![idx] = sent]))
              f3 == logOp(f2, now, "hydro_history_send", [id |-> id, ts |-> payload.timestamp])
          IN Reply(f3, 200, Obj([ok |-> TRUE, applied |-> payload]))

HistoryCreateBodies ==
  { [NoFields EXCEPT !.longitude = Num(3), !.latitude = Num(4), !.name = Str("rec")],
    [NoFields EXCEPT !.latitude = Num(4)] }

GetHydroHistory ==
  LET r == Request("GET", "/api/hydro/history", "hydro_history_list", "", NoFields)
  IN Routed(r, getHydroHistory(Counted(r), clock))

PostHydroHistory ==
  \E b \in HistoryCreateBodies, random \in RandomSuffixes :
    LET r == Request("POST", "/api/hydro/history", "hydro_history_create", "", b)
    IN Routed(r, postHydroHistory(Counted(r), clock, random, b))

DeleteHydroHistory ==
  \E id \in IdsOf(hydroHistoryFile) :
    LET r == Request("DELETE", "/api/hydro/history/" \o id, "hydro_history_delete", id, NoFields)
    IN Routed(r, deleteHydroHistory(Counted(r), clock, id))

SendHydroHistory ==
  \E id \in IdsOf(hydroHistoryFile) :
    LET r == Request("POST", "/api/hydro/history/" \o id \o "/send", "hydro_history_send", id, NoFields)
    IN Routed(r, sendHydroHistory(Counted(r), clock, id))

(***************************************************************************)
(* The send handler write by write (server.js 318, 321, 322): each         *)
(* writeFileSync is a separate system call, so a process that fails        *)
(* inside the handler leaves the files as the writes made so far left them.*)
(***************************************************************************)
\* the snapshot the send handler builds from a record (server.js 306-317)
sendPayload(item, now) ==
  [longitude |-> item.longitude,
   latitude |-> item.latitude,
   heading |-> item.heading,
   temperature |-> item.temperature,
   humidity |-> item.humidity,
   pressure |-> item.pressure,
   salinity |-> item.salinity,
   shipDetected |-> Bool(Truthy(item.shipDetected)),
   shipType |-> OrElse(item.shipType, Str("")),
   timestamp |-> Str(ToISOString(now))]

\* the send handler with the history written before the snapshot
sendWritesHistoryFirst(files, now, id) ==
  LET list == readHydroHistory(files)
      idx == FindIndex(list.v, id)
      item == list.v[idx]
      payload == sendPayload(item, now)
      sent == [item EXCEPT !.sentAt = payload.timestamp]
      f1 == writeHydroHistory(files, Arr([list.v EXCEPT ![idx] = sent]))
      f2 == writeHydrophone(f1, Obj(payload))
      f3 == logOp(f2, now, "hydro_history_send", [id |-> id, ts |-> payload.timestamp])
  IN <<f1, f2, f3>>

\* the files after the first, the second and the third write of a send that
\* found its record
sendWrites(files, now, id) ==
  LET list == readHydroHistory(files)
      idx == FindIndex(list.v, id)
      item == list.v[idx]
      payload == sendPayload(item, now)
      f1 == writeHydrophone(files, Obj(payload))
      sent == [item EXCEPT !.sentAt = payload.timestamp]
      f2 == writeHydroHistory(f1, Arr([list.v EXCEPT ![idx] = sent]))
      f3 == logOp(f2, now, "hydro_history_send", [id |-> id, ts |-> payload.timestamp])
  IN <<f1, f2, f3>>

\* The process fails while it handles the request r, having left the files
\* as given: the request gets no answer, and the process answers no further
\* request.
Failed(r, files) ==
  LET key == StatsKey(r.path, r.method)
  IN /\ served < budget
     /\ fs' = files
     /\ req' = r
     /\ resp' = NoResponse
     /\ budget' = served
     /\ calls' = [k \in (DOMAIN calls) \cup {key} |->
                    IF k = key THEN Count(calls, key) + 1 ELSE calls[k]]
     /\ seen' = LET stats == files[statsFile].v
                IN [k \in (DOMAIN seen) \cup (DOMAIN stats) |->
                      IF Count(stats, k) > Count(seen, k) THEN stats[k] ELSE seen[k]]
     /\ UNCHANGED <<clock, served, inflight>>

\* the failure comes after `writes` of the handler's writes
SendHydroHistoryFails ==
  \E id \in Ids(readHydroHistory(fs).v), writes \in 0..3 :
    LET r == Request("POST", "/api/hydro/history/" \o id \o "/send", "hydro_history_send",
                     id, NoFields)
    IN Failed(r, IF writes = 0 THEN Counted(r)
                 ELSE sendWrites(Counted(r), clock, id)[writes])

(***************************************************************************)
(* The attraction handlers write by write (server.js 179-180, 193-194,     *)
(* 203-204): the files after the collection write and after the log write  *)
(* of a request that passed the handler's checks.                          *)
(***************************************************************************)
postAttractionsWrites(files, now, body) ==
  LET address == Default(body.address, Str(""))
      tags == Default(body.tags, Arr(<<>>))
      desc == Default(body.desc, Str(""))
      list == readAttractions(files)
      item == [id |-> ToString36(now), name |-> body.name, lng |-> body.lng,
               lat |-> body.lat, address |-> address, tags |-> tags, desc |-> desc]
      f1 == writeAttractions(files, Arr(Append(list.v, item)))
      f2 == logOp(f1, now, "attraction_create", [id |-> item.id, name |-> body.name])
  IN <<f1, f2>>

putAttractionsWrites(files, now, id, body) ==
  LET list == readAttractions(files)
      idx == FindIndex(list.v, id)
      next == Patch(list.v[idx], body, AttractionFields)
      f1 == writeAttractions(files, Arr([list.v EXCEPT ![idx] = next]))
      f2 == logOp(f1, now, "attraction_update", [id |-> id])
  IN <<f1, f2>>

deleteAttractionsWrites(files, now, id) ==
  LET list == readAttractions(files)
      next == FilterOut(list.v, id)
      f1 == writeAttractions(files, Arr(next))
      f2 == logOp(f1, now, "attraction_delete", [id |-> id])
  IN <<f1, f2>>

PostAttractionsFails ==
  \E b \in {c \in AttractionCreateBodies : Truthy(c.name)}, writes \in 0..2 :
    LET r == Request("POST", "/api/attractions", "attraction_create", "", b)
    IN Failed(r, IF writes = 0 THEN Counted(r)
                 ELSE postAttractionsWrites(Counted(r), clock, b)[writes])

PutAttractionsFails ==
  \E id \in Ids(readAttractions(fs).v), b \in AttractionUpdateBodies, writes \in 0..2 :
    LET r == Request("PUT", "/api/attractions/" \o id, "attraction_update", id, b)
    IN Failed(r, IF writes = 0 THEN Counted(r)
                 ELSE putAttractionsWrites(Counted(r), clock, id, b)[writes])

DeleteAttractionsFails ==
  \E id \in Ids(readAttractions(fs).v), writes \in 0..2 :
    LET r == Request("DELETE", "/api/attractions/" \o id, "attraction_delete", id, NoFields)
    IN Failed(r, IF writes = 0 THEN Counted(r)
                 ELSE deleteAttractionsWrites(Counted(r), clock, id)[writes])

(***************************************************************************)
(* Stats and logs, the fallback, and the requests that are answered before *)
(* the stats middleware is reached (server.js 29-38, 327-338).             *)
(***************************************************************************)
getStats(files, now) == Reply(files, 200, readJson(files, statsFile, Obj(<<>>)))
getLogs(files, now) == Reply(files, 200, readJson(files, logsFile, Arr(<<>>)))

GetStats ==
  LET r == Request("GET", "/api/stats", "stats", "", NoFields)
  IN Routed(r, getStats(Counted(r), clock))
GetLogs ==
  LET r == Request("GET", "/api/logs", "logs", "", NoFields)
  IN Routed(r, getLogs(Counted(r), clock))

\* the body of a file sent by express.static or res.sendFile
FileBody(name) == Str(name)

\* app.get('*'): any other GET is answered with the front-end's index.html
fallback(files, now) == Reply(files, 200, FileBody("travel+/index.html"))
Fallback ==
  LET r == Request("GET", "/map", "fallback", "", NoFields)
  IN Routed(r, fallback(Counted(r), clock))

\* no route matches a request that is not a GET: Express answers 404
unmatched(files, now) == [files |-> files, resp |-> [status |-> 404, body |-> Undef]]
Unmatched ==
  LET r == Request("DELETE", "/api/stats", "unmatched", "", NoFields)
  IN Routed(r, unmatched(Counted(r), clock))

\* A request answered by a middleware mounted before the stats middleware:
\* next() is never called, so nothing after line 38 runs for it.
AnsweredEarly(r, status, body) ==
  /\ served < budget
  /\ req' = r
  /\ resp' = [status |-> status, body |-> body]
  /\ served' = served + 1
  /\ UNCHANGED <<fs, clock, calls, inflight, budget, seen>>

\* express.json() rejects a body that is not JSON
MalformedJson ==
  AnsweredEarly(Request("POST", "/api/pois", "malformed_json", "", NoFields), 400, Undef)

\* express.static(frontDir) finds the file
StaticFront ==
  AnsweredEarly(Request("GET", "/index.html", "static_front", "", NoFields), 200,
                FileBody("travel+/index.html"))

\* app.get('/admin')
AdminPage ==
  AnsweredEarly(Request("GET", "/admin", "admin_page", "", NoFields), 200,
                FileBody("admin/index.html"))

Next ==
  \/ Tick
  \/ GetRoutes
  \/ PostRoutes
  \/ PutRoutes
  \/ DeleteRoutes
  \/ GetPois
  \/ PostPois
  \/ PutPois
  \/ DeletePois
  \/ GetAttractions
  \/ PostAttractions
  \/ PutAttractions
  \/ DeleteAttractions
  \/ GetHydrophoneLatest
  \/ PostHydrophoneUpdate
  \/ GetHydroHistory
  \/ PostHydroHistory
  \/ DeleteHydroHistory
  \/ SendHydroHistory
  \/ GetStats
  \/ GetLogs
  \/ Fallback
  \/ Unmatched
  \/ MalformedJson
  \/ StaticFront
  \/ AdminPage

Spec == Init /\ [][Next]_vars

(***************************************************************************)
(* The create, update and delete handlers of the three document            *)
(* collections alone, over longer runs.                                    *)
(***************************************************************************)
InitCrud == Started(MaxCrudRequests)

NextCrud ==
  \/ Tick
  \/ PostRoutes
  \/ PutRoutes
  \/ DeleteRoutes
  \/ PostPois
  \/ PutPois
  \/ DeletePois
  \/ PostAttractions
  \/ PutAttractions
  \/ DeleteAttractions

SpecCrud == InitCrud /\ [][NextCrud]_vars

(***************************************************************************)
(* The hydrophone snapshot and history handlers alone, over longer runs.   *)
(***************************************************************************)
InitHydro == Started(MaxHydroRequests)

NextHydro ==
  \/ Tick
  \/ PostHydrophoneUpdate
  \/ PostHydroHistory
  \/ DeleteHydroHistory
  \/ SendHydroHistory

SpecHydro == InitHydro /\ [][NextHydro]_vars

(***************************************************************************)
(* One client that posts snapshot after snapshot and stamps its n-th post   *)
(* with the number n: the run that fills the audit log.  The log entry of  *)
(* the n-th post carries that stamp in its detail.                         *)
(***************************************************************************)
InitLog == Started(MaxLogRequests)

Beacon(n) ==
  [NoFields EXCEPT !.longitude = Num(1), !.latitude = Num(2), !.timestamp = Num(n)]

NextLog == PostHydrophoneUpdateOf(Beacon(served + 1))

SpecLog == InitLog /\ [][NextLog]_vars

(***************************************************************************)
(* Concurrent requests.  express.json() (server.js 30) reads a request's   *)
(* body asynchronously, so several requests can be in flight at once; when *)
(* a body is complete, the rest of the middleware chain and the handler    *)
(* run synchronously, to the end, for that one request.                    *)
(***************************************************************************)
InitConc == Started(MaxConcRequests)

InFlight(r) ==
  [r |-> r, n |-> Cardinality(inflight) + 1, at |-> served, done |-> FALSE,
   order |-> 0, status |-> 0]

\* the route handler that Express picks for an in-flight request
Handle(files, now, r) ==
  IF r.op = "poi_create" THEN postPois(files, now, Destructure(r.body))
  ELSE putPois(files, now, r.id, Destructure(r.body))

ConcCreateBody == [NoFields EXCEPT !.name = Str("Pier"), !.lng = Num(120), !.lat = Num(30)]

\* a request arrives and its body starts to be read
Accept ==
  /\ Cardinality(inflight) < budget
  /\ \E r \in {Request("POST", "/api/pois", "poi_create", "", ConcCreateBody)}
             \cup {Request("PUT", "/api/pois/" \o id, "poi_update", id, b) :
                     id \in IdsOf(poisFile), b \in PoiUpdateBodies} :
       inflight' = inflight \cup {InFlight(r)}
  /\ UNCHANGED <<fs, clock, req, resp, served, calls, budget, seen>>

\* the body of an in-flight request is complete: middleware and handler run
Dispatch ==
  \E e \in inflight :
    /\ ~e.done
    /\ Run(e.r, Handle(Counted(e.r), clock, e.r))
    /\ inflight' = (inflight \ {e})
                     \cup {[e EXCEPT !.done = TRUE, !.order = served', !.status = resp'.status]}

NextConc ==
  \/ Tick
  \/ Accept
  \/ Dispatch

SpecConc == InitConc /\ [][NextConc]_vars

(***************************************************************************)
(* Storage events.  The data files live outside the process: a file can be *)
(* deleted or damaged between two requests, and readJson (server.js 41-43) *)
(* then takes its catch branch.                                            *)
(***************************************************************************)
MaxStorageRequests == 2
MaxLost == 1

InitStorage == Started(MaxStorageRequests)

\* the files whose content cannot be read and parsed
Lost == {f \in Files : fs[f] = Unreadable}

\* a data file goes missing or stops being JSON
Lose ==
  /\ Cardinality(Lost) < MaxLost
  /\ \E f \in Files \ Lost : fs' = [fs EXCEPT ![f] = Unreadable]
  /\ UNCHANGED <<clock, req, resp, served, calls, inflight, budget, seen>>

NextStorage ==
  \/ Lose
  \/ GetRoutes
  \/ PostRoutes
  \/ GetPois
  \/ PostPois
  \/ PutPois
  \/ DeletePois
  \/ GetAttractions
  \/ PostAttractions
  \/ GetHydrophoneLatest
  \/ PostHydrophoneUpdate
  \/ GetHydroHistory
  \/ PostHydroHistory
  \/ DeleteHydroHistory
  \/ SendHydroHistory
  \/ GetStats
  \/ GetLogs

SpecStorage == InitStorage /\ [][NextStorage]_vars

(***************************************************************************)
(* The requests on the routes, the history and the snapshot, reads         *)
(* included, over runs long enough to hold two documents and act on them.  *)
(***************************************************************************)
MaxDocRequests == 3

InitDocs == Started(MaxDocRequests)

NextDocs ==
  \/ Tick
  \/ GetRoutes
  \/ PostRoutes
  \/ PutRoutes
  \/ DeleteRoutes
  \/ GetHydrophoneLatest
  \/ PostHydrophoneUpdate
  \/ GetHydroHistory
  \/ PostHydroHistory
  \/ DeleteHydroHistory
  \/ SendHydroHistory

SpecDocs == InitDocs /\ [][NextDocs]_vars

(***************************************************************************)
(* The list requests of the four collections, with the creates and the     *)
(* renaming updates that fill the collections they sort.                   *)
(***************************************************************************)
MaxListRequests == 4

InitList == Started(MaxListRequests)

NextList ==
  \/ Tick
  \/ GetRoutes
  \/ PostRoutes
  \/ GetPois
  \/ PostPois
  \/ PutPois
  \/ GetAttractions
  \/ PostAttractions
  \/ PutAttractions
  \/ GetHydroHistory
  \/ PostHydroHistory

SpecList == InitList /\ [][NextList]_vars

(***************************************************************************)
(* The history and snapshot handlers with a process that can fail inside   *)
(* the send handler.                                                       *)
(***************************************************************************)
MaxCrashRequests == 3

InitCrash == Started(MaxCrashRequests)

NextCrash ==
  \/ Tick
  \/ PostHydrophoneUpdate
  \/ PostHydroHistory
  \/ SendHydroHistory
  \/ SendHydroHistoryFails

SpecCrash == InitCrash /\ [][NextCrash]_vars

(***************************************************************************)
(* Every mutating request, with a process that can fail inside the send    *)
(* handler and inside the attraction handlers.                             *)
(***************************************************************************)
MaxAuditRequests == 2

InitAudit == Started(MaxAuditRequests)

NextAudit ==
  \/ Tick
  \/ PostRoutes
  \/ PutRoutes
  \/ DeleteRoutes
  \/ PostPois
  \/ PutPois
  \/ DeletePois
  \/ PostAttractions
  \/ PutAttractions
  \/ DeleteAttractions
  \/ PostHydrophoneUpdate
  \/ PostHydroHistory
  \/ DeleteHydroHistory
  \/ SendHydroHistory
  \/ SendHydroHistoryFails
  \/ PostAttractionsFails
  \/ PutAttractionsFails
  \/ DeleteAttractionsFails

SpecAudit == InitAudit /\ [][NextAudit]_vars

(***************************************************************************)
(* Properties.                                                             *)
(***************************************************************************)
Collections == {poisFile, routesFile, attractionsFile, hydroHistoryFile}

\* the documents stored in a collection file
Docs(file) == fs[file].v

\* the step answers a request
Answers == served' = served + 1

\* the collection file an operation works on
FileOf(op) ==
  CASE op \in {"poi_create", "poi_update", "poi_delete"} -> poisFile
    [] op \in {"route_create", "route_update", "route_delete"} -> routesFile
    [] op \in {"attraction_create", "attraction_update", "attraction_delete"} ->
         attractionsFile
    [] OTHER -> hydroHistoryFile

\* C1: in every reachable state the ids of the documents of one collection
\* (POIs, Routes, Attractions, HydroHistory) are pairwise distinct, whatever
\* the clock read at each create.
C1_IdsUnique ==
  \A f \in Collections :
    \A i, j \in 1..Len(Docs(f)) : i # j => Docs(f)[i].id # Docs(f)[j].id

\* C2: a successful PUT of a POI, Route or Attraction changes, in the first
\* document with the given id, only fields the body carries: every field
\* absent from the body keeps its value, the id is kept even when the body
\* carries one, and every other document of the collection is unchanged.
C2_UpdateFrame ==
  [][(Answers /\ req'.op \in {"poi_update", "route_update", "attraction_update"}
        /\ resp'.status = 200)
       => LET old == fs[FileOf(req'.op)].v
              new == fs'[FileOf(req'.op)].v
              idx == FindIndex(old, req'.id)
          IN /\ idx # 0
             /\ Len(new) = Len(old)
             /\ \A i \in 1..Len(old) : i # idx => new[i] = old[i]
             /\ new[idx].id = old[idx].id
             /\ DOMAIN new[idx] = DOMAIN old[idx]
             /\ \A k \in DOMAIN old[idx] :
                  Field(req'.body, k) = Undef => new[idx][k] = old[idx][k]]_vars

\* a PUT that carried an id and left another document of the collection alone
C2_Witness ==
  /\ req.op = "poi_update"
  /\ resp.status = 200
  /\ Field(req.body, "id") # Undef
  /\ Field(req.body, "name") # Undef
  /\ Field(req.body, "tags") = Undef
  /\ Len(Docs(poisFile)) = 2

\* C3: a delete answers 404 when no document of the collection has the id;
\* otherwise it succeeds, the collection shrinks by exactly one document, the
\* documents with other ids all remain, and the id is no longer listed.
C3_DeleteExactlyOne ==
  [][(Answers /\ req'.op \in {"poi_delete", "route_delete", "attraction_delete",
                              "hydro_history_delete"})
       => LET old == fs[FileOf(req'.op)].v
              new == fs'[FileOf(req'.op)].v
          IN IF req'.id \notin Ids(old)
             THEN resp'.status = 404 /\ new = old
             ELSE /\ resp'.status = 204
                  /\ Len(new) = Len(old) - 1
                  /\ \A i \in 1..Len(old) :
                       old[i].id # req'.id => \E j \in 1..Len(new) : new[j] = old[i]
                  /\ req'.id \notin Ids(new)]_vars

\* the audit log, head first
Logs == fs[logsFile].v

\* C4: the audit log never holds more than 500 entries and is ordered
\* most-recent-first; every append puts the new entry at the head and keeps
\* the older entries behind it in their order, and an append to a log of 500
\* entries evicts exactly the last one.
C4_LogBounded ==
  [][/\ Len(Logs') <= LogCap
     /\ \A i, j \in 1..Len(Logs') : i < j => Logs'[i].detail.ts.v > Logs'[j].detail.ts.v
     /\ Logs' # Logs =>
          /\ Head(Logs').detail.ts = Num(served')
          /\ Tail(Logs') = IF Len(Logs) = LogCap THEN SubSeq(Logs, 1, LogCap - 1) ELSE Logs
    ]_vars

\* the log is full and entries have been evicted
C4_Witness == Len(Logs) = LogCap /\ served = LogCap + 2

\* C5: the counter stored under verb + " " + path equals the number of
\* incRequest calls made with that verb and path, for every key, and no other
\* key is stored.
C5_CountersMatchCalls ==
  LET stats == fs[statsFile].v
  IN /\ DOMAIN stats = DOMAIN calls
     /\ \A k \in DOMAIN calls : stats[k] = calls[k]

\* three calls for one verb and path, interleaved with a call for another
C5_Witness ==
  LET stats == fs[statsFile].v
  IN /\ {"POST /api/hydrophone/update", "POST /api/hydro/history"} \subseteq DOMAIN stats
     /\ stats["POST /api/hydrophone/update"] = 3
     /\ stats["POST /api/hydro/history"] = 1
     /\ req.op = "hydro_history_create"

\* C6: every request the server answers increments the usage counter of its
\* verb and path exactly once.
C6_EveryRequestCounted ==
  [][Answers =>
       LET key == StatsKey(req'.path, req'.method)
       IN Count(fs'[statsFile].v, key) = Count(fs[statsFile].v, key) + 1]_vars

\* C7: a successful send of a history record leaves the snapshot with the
\* record's longitude and latitude, stamps the record's sentAt with the
\* snapshot's timestamp (not null), and changes no other history record.
C7_SendAppliesRecord ==
  [][(Answers /\ req'.op = "hydro_history_send" /\ resp'.status = 200)
       => LET old == fs[hydroHistoryFile].v
              new == fs'[hydroHistoryFile].v
              idx == FindIndex(old, req'.id)
              snapshot == fs'[hydrophoneFile]
          IN /\ idx # 0
             /\ snapshot.t = "object"
             /\ snapshot.v.longitude = old[idx].longitude
             /\ snapshot.v.latitude = old[idx].latitude
             /\ new[idx].longitude = old[idx].longitude
             /\ new[idx].latitude = old[idx].latitude
             /\ new[idx].sentAt # Null
             /\ new[idx].sentAt = snapshot.v.timestamp
             /\ Len(new) = Len(old)
             /\ \A i \in 1..Len(old) : i # idx => new[i] = old[i]]_vars

\* a record was sent while the history held another record
C7_Witness ==
  /\ req.op = "hydro_history_send"
  /\ resp.status = 200
  /\ Len(Docs(hydroHistoryFile)) >= 2
  /\ \E i, j \in 1..Len(Docs(hydroHistoryFile)) :
       /\ Docs(hydroHistoryFile)[i].sentAt # Null
       /\ Docs(hydroHistoryFile)[j].sentAt = Null

\* the fields a PUT body sets
Changes(r) == {k \in PoiFields : Field(r.body, k) # Undef}

\* the first stored POI with the id
Poi(files, id) == files[poisFile].v[FindIndex(files[poisFile].v, id)]

Answered(e) == e.done /\ e.status = 200 /\ e.r.op = "poi_update"

\* two requests were in flight at the same time
Overlap(a, b) == a.at < b.order /\ b.at < a.order

\* C8 (as stated): two updates of one document that are in flight together
\* can be run by the server so that the write of the later one discards the
\* change of the earlier one.  The runs the server has for two in-flight
\* requests are the two orders of Dispatch, each running one handler whole.
C8_LostUpdateReachable ==
  \A a, b \in inflight :
    (/\ ~a.done /\ ~b.done /\ a # b
     /\ a.r.op = "poi_update" /\ b.r.op = "poi_update"
     /\ a.r.id = b.r.id /\ a.r.id \in Ids(Docs(poisFile))
     /\ Changes(a.r) # {} /\ Changes(b.r) # {}
     /\ Changes(a.r) \cap Changes(b.r) = {})
    => \E first \in {a, b} :
         LET second == IF first = a THEN b ELSE a
             f1 == Handle(incRequest(fs, first.r.path, first.r.method), clock, first.r).files
             f2 == Handle(incRequest(f1, second.r.path, second.r.method), clock, second.r).files
         IN \E k \in Changes(first.r) : Poi(f2, first.r.id)[k] # Field(first.r.body, k)

\* C8 (amended): no update is lost.  Whatever the order in which in-flight
\* requests are dispatched, a field set by an answered update holds the value
\* that update gave it, unless another answered update of the same document
\* set that field too.
C8_NoLostUpdate ==
  \A a \in inflight :
    Answered(a) =>
      \A k \in Changes(a.r) :
        \/ Poi(fs, a.r.id)[k] = Field(a.r.body, k)
        \/ \E b \in inflight : b # a /\ Answered(b) /\ b.r.id = a.r.id /\ k \in Changes(b.r)

\* two updates of one document, in flight together, have both been answered
C8_Witness ==
  \E a, b \in inflight :
    /\ a # b /\ Answered(a) /\ Answered(b) /\ Overlap(a, b)
    /\ a.r.id = b.r.id
    /\ Changes(a.r) # {} /\ Changes(b.r) # {}
    /\ Changes(a.r) \cap Changes(b.r) = {}

\* C9: a request answered 400 or 404 leaves every collection, the snapshot
\* and the audit log as they were; only the usage counters may change.
C9_ErrorsChangeNothing ==
  [][(Answers /\ resp'.status \in {400, 404})
       => \A f \in Files \ {statsFile} : fs'[f] = fs[f]]_vars

\* a delete was answered 404 while the collection held a document
C9_Witness ==
  /\ req.op = "poi_delete"
  /\ resp.status = 404
  /\ Len(Docs(poisFile)) = 1
  /\ Len(Logs) = 1

\* C10: POST /api/pois succeeds exactly when name is a non-empty string and
\* lng and lat are numbers; otherwise it answers 400 and stores nothing.
C10_PoiCreateValidates ==
  [][(Answers /\ req'.op = "poi_create")
       => IF /\ IsString(Field(req'.body, "name")) /\ Field(req'.body, "name").v # ""
             /\ IsNumber(Field(req'.body, "lng")) /\ IsNumber(Field(req'.body, "lat"))
          THEN resp'.status = 201
          ELSE resp'.status = 400 /\ fs'[poisFile] = fs[poisFile]]_vars

\* the ten fields of a snapshot
SnapshotFields ==
  {"longitude", "latitude", "heading", "temperature", "humidity", "pressure",
   "salinity", "shipDetected", "shipType", "timestamp"}

\* C11: a snapshot update with numeric longitude and latitude replaces the
\* snapshot wholesale, and stores each optional field with its default when
\* it is absent or of the wrong type: heading, temperature, humidity, pressure
\* and salinity are null unless numbers, shipDetected is false unless a
\* boolean, shipType is "" unless a string, timestamp is the current time
\* unless supplied.
C11_SnapshotDefaults ==
  [][(/\ Answers /\ req'.op = "hydrophone_update"
      /\ IsNumber(Field(req'.body, "longitude"))
      /\ IsNumber(Field(req'.body, "latitude")))
       => LET b == Destructure(req'.body)
              snapshot == fs'[hydrophoneFile]
          IN /\ resp'.status = 201
             /\ snapshot.t = "object"
             /\ DOMAIN snapshot.v = SnapshotFields
             /\ snapshot.v.longitude = b.longitude
             /\ snapshot.v.latitude = b.latitude
             /\ \A k \in {"heading", "temperature", "humidity", "pressure", "salinity"} :
                  snapshot.v[k] = IF IsNumber(b[k]) THEN b[k] ELSE Null
             /\ snapshot.v.shipDetected =
                  IF b.shipDetected.t = "boolean" THEN b.shipDetected ELSE Bool(FALSE)
             /\ snapshot.v.shipType = IF IsString(b.shipType) THEN b.shipType ELSE Str("")
             /\ snapshot.v.timestamp =
                  IF b.timestamp # Undef THEN b.timestamp ELSE Str(ToISOString(clock))]_vars

ListOps == {"poi_list", "route_list", "attraction_list", "hydro_history_list"}
CreateOps == {"poi_create", "route_create", "attraction_create", "hydro_history_create"}
ByIdOps ==
  {"poi_update", "poi_delete", "route_update", "route_delete", "attraction_update",
   "attraction_delete", "hydro_history_delete", "hydro_history_send"}

\* the collection file a list, create, update, delete or send request loads
LoadedBy(op) ==
  CASE op \in {"poi_list", "poi_create", "poi_update", "poi_delete"} -> poisFile
    [] op \in {"route_list", "route_create", "route_update", "route_delete"} -> routesFile
    [] op \in {"attraction_list", "attraction_create", "attraction_update",
               "attraction_delete"} -> attractionsFile
    [] OTHER -> hydroHistoryFile

\* the request answered by the step wrote a collection or the snapshot
Mutated(op, status) ==
  /\ op \in CreateOps \cup ByIdOps \cup {"hydrophone_update"}
  /\ status \in {200, 201, 204}

\* C12: a request that loads a missing or unreadable file is never answered
\* with an error (the one error answer there is, that of a list whose stored
\* names cannot be compared, comes from a file that was read).  A list of a lost collection returns the empty sequence,
\* the lost log reads as the empty sequence, the lost snapshot and the lost
\* counters read as the empty mapping; and the next mutating request on the
\* lost file completes normally from that empty default: a create leaves the
\* new document as the only one, an update, delete or send finds nothing, the
\* counters restart with the one request, the log with the one entry.
C12_LostStorageLoadsEmpty ==
  [][Answers =>
       LET op == req'.op
           f == LoadedBy(op)
           key == StatsKey(req'.path, req'.method)
       IN /\ resp'.status = 500
               => /\ op \in {"poi_list", "attraction_list"}
                  /\ f \notin Lost
                  /\ ~CanCompareNames(fs[f].v)
          /\ (op \in ListOps /\ f \in Lost)
               => resp' = [status |-> 200, body |-> Arr(<<>>)] /\ fs'[f] = Unreadable
          /\ (op \in CreateOps /\ f \in Lost)
               => /\ resp'.status \in {201, 400}
                  /\ resp'.status = 201 => fs'[f] = Arr(<<resp'.body.v>>)
                  /\ resp'.status = 400 => fs'[f] = Unreadable
          /\ (op \in ByIdOps /\ f \in Lost)
               => resp'.status = 404 /\ fs'[f] = Unreadable
          /\ (op = "hydrophone_latest" /\ hydrophoneFile \in Lost)
               => resp' = [status |-> 200, body |-> Obj(<<>>)]
          /\ (op = "hydrophone_update" /\ hydrophoneFile \in Lost)
               => /\ resp'.status \in {201, 400}
                  /\ resp'.status = 201 => DOMAIN fs'[hydrophoneFile].v = SnapshotFields
          /\ statsFile \in Lost => fs'[statsFile] = Obj([k \in {key} |-> 1])
          /\ (op = "stats" /\ statsFile \in Lost)
               => resp' = [status |-> 200, body |-> Obj([k \in {key} |-> 1])]
          /\ (op = "logs" /\ logsFile \in Lost)
               => resp' = [status |-> 200, body |-> Arr(<<>>)]
          /\ (logsFile \in Lost /\ Mutated(op, resp'.status))
               => Len(Logs') = 1 /\ Logs'[1].type = op]_vars

\* a POI was created, pois.json was lost, and the next create was answered
\* 201 and left its document as the only one
C12_Witness ==
  /\ req.op = "poi_create"
  /\ resp.status = 201
  /\ Lost = {}
  /\ Docs(poisFile) = <<resp.body.v>>
  /\ Len(Logs) = 2
  /\ \A i \in 1..2 : Logs[i].type = "poi_create"

\* C13: the usage counters are monotonic along every sequence of requests
\* and storage events: whenever stats.json can be read, every key it has
\* ever held is still there, with a value no lower than any it held before.
C13_CountersMonotonic ==
  statsFile \notin Lost =>
    \A k \in DOMAIN seen :
      k \in DOMAIN fs[statsFile].v /\ fs[statsFile].v[k] >= seen[k]

DeleteOps == {"poi_delete", "route_delete", "attraction_delete", "hydro_history_delete"}

\* the number of documents of a list that carry the id
Copies(list, id) == Cardinality({i \in 1..Len(list) : list[i].id = id})

\* C14: no document of POIs, Routes, Attractions or HydroHistory leaves its
\* collection except by a successful delete request carrying its id.  Every
\* other step (create, update, send, snapshot update, the reads, a delete
\* answered 404) keeps every stored document in its place under its id, and
\* a successful delete keeps every document that carries another id.
C14_NoImplicitDelete ==
  [][\A f \in Collections :
       LET old == fs[f].v
           new == fs'[f].v
       IN IF /\ Answers /\ req'.op \in DeleteOps /\ FileOf(req'.op) = f
             /\ resp'.status = 204
          THEN \A i \in 1..Len(old) :
                 old[i].id # req'.id => Copies(new, old[i].id) = Copies(old, old[i].id)
          ELSE /\ Len(new) >= Len(old)
               /\ \A i \in 1..Len(old) : new[i].id = old[i].id]_vars

\* the second of two history records was sent and the first is still stored
C14_Witness ==
  /\ req.op = "hydro_history_send"
  /\ resp.status = 200
  /\ Len(Docs(hydroHistoryFile)) = 2
  /\ Docs(hydroHistoryFile)[2].sentAt # Null
  /\ Docs(hydroHistoryFile)[1].sentAt = Null

\* the number of positions of a list that hold the document
Occurrences(list, doc) == Cardinality({i \in 1..Len(list) : list[i] = doc})

\* the lists hold the same documents, each as often in one as in the other
IsPermutation(a, b) ==
  /\ Len(a) = Len(b)
  /\ \A i \in 1..Len(a) : Occurrences(a, a[i]) = Occurrences(b, a[i])

\* newest first
DescendingByCreatedAt(list) ==
  \A i, j \in 1..Len(list) :
    i < j => ParseISO(list[i].createdAt) >= ParseISO(list[j].createdAt)

\* in collation order of the names
AscendingByName(list) ==
  \A i, j \in 1..Len(list) :
    i < j => /\ IsString(list[i].name) /\ IsString(list[j].name)
             /\ Rank(list[i].name.v) <= Rank(list[j].name.v)

\* C15: in every reachable state a list request is answered with all stored
\* documents of its collection, none dropped or duplicated, newest first for
\* Routes and HydroHistory and by ascending name for POIs and Attractions,
\* and it changes neither the stored collection nor the audit log.
C15_ListSortedPermutation ==
  [][(Answers /\ req'.op \in ListOps)
       => LET f == LoadedBy(req'.op)
              out == resp'.body.v
          IN /\ resp'.status = 200
             /\ IsArray(resp'.body)
             /\ IsPermutation(out, fs[f].v)
             /\ IF req'.op \in {"route_list", "hydro_history_list"}
                THEN DescendingByCreatedAt(out)
                ELSE AscendingByName(out)
             /\ fs'[f] = fs[f]
             /\ fs'[logsFile] = fs[logsFile]]_vars

\* C16: every stored Route has a non-empty name and a non-empty coords
\* sequence, in every state reachable by route create, update and delete.
C16_RoutesWellFormed ==
  \A i \in 1..Len(Docs(routesFile)) :
    LET route == Docs(routesFile)[i]
    IN /\ IsString(route.name) /\ route.name.v # ""
       /\ IsArray(route.coords) /\ Len(route.coords.v) > 0

\* the snapshot holds the values of the record, stamped with the time `now`
SnapshotOf(snapshot, item, now) ==
  /\ snapshot.t = "object"
  /\ DOMAIN snapshot.v = SnapshotFields
  /\ \A k \in {"longitude", "latitude", "heading", "temperature", "humidity",
                "pressure", "salinity"} : snapshot.v[k] = item[k]
  /\ snapshot.v.timestamp = Str(ToISOString(now))

\* C17: send persists the snapshot before it persists the history, and is
\* not atomic.  A send that the process does not survive leaves one of three
\* states: nothing of the handler written; the snapshot equal to the record's
\* values while the history, the record's sentAt included, is as it was; or
\* both written.  The history is never written while the snapshot is not,
\* and a send that is answered has written both.
C17_SendSnapshotFirst ==
  [][(/\ req'.op = "hydro_history_send"
      /\ budget' # budget \/ (Answers /\ resp'.status = 200))
       => LET old == fs[hydroHistoryFile].v
              new == fs'[hydroHistoryFile].v
              idx == FindIndex(old, req'.id)
              item == old[idx]
              stamped == [old EXCEPT ![idx].sentAt = Str(ToISOString(clock))]
          IN /\ idx # 0
             /\ \/ /\ budget' # budget
                   /\ fs'[hydrophoneFile] = fs[hydrophoneFile]
                   /\ new = old
                \/ /\ budget' # budget
                   /\ SnapshotOf(fs'[hydrophoneFile], item, clock)
                   /\ new = old
                \/ /\ SnapshotOf(fs'[hydrophoneFile], item, clock)
                   /\ new = stamped]_vars

\* the process failed inside a send, between the two writes: the snapshot
\* holds the record's values and the record's sentAt is still null
C17_Witness ==
  /\ req.op = "hydro_history_send"
  /\ resp = NoResponse
  /\ budget = served
  /\ LET list == Docs(hydroHistoryFile)
         idx == FindIndex(list, req.id)
     IN /\ idx # 0
        /\ SnapshotOf(fs[hydrophoneFile], list[idx], clock)
        /\ list[idx].sentAt = Null
  /\ \A i \in 1..Len(Logs) : Logs[i].type # "hydro_history_send"

\* the fields an update request may set
FieldsOf(op) ==
  CASE op = "poi_update" -> PoiFields
    [] op = "route_update" -> RouteFields
    [] OTHER -> AttractionFields

\* The collection or snapshot write of the request handled by the step is in
\* the files the step leaves.
Persisted ==
  LET op == req'.op
      f == LoadedBy(op)
      old == fs[f].v
      new == fs'[f].v
      idx == FindIndex(old, req'.id)
      entry == Head(Logs')
  IN CASE op \in CreateOps ->
            /\ Len(new) = Len(old) + 1
            /\ SubSeq(new, 1, Len(old)) = old
            /\ new[Len(new)].id = entry.detail.id
       [] op \in {"poi_update", "route_update", "attraction_update"} ->
            /\ idx # 0
            /\ \A k \in (DOMAIN req'.body) \cap FieldsOf(op) : new[idx][k] = req'.body[k]
       [] op \in DeleteOps ->
            req'.id \in Ids(old) /\ req'.id \notin Ids(new)
       [] op = "hydrophone_update" ->
            /\ fs'[hydrophoneFile].t = "object"
            /\ fs'[hydrophoneFile].v.longitude = Field(req'.body, "longitude")
            /\ fs'[hydrophoneFile].v.timestamp = entry.detail.ts
       [] op = "hydro_history_send" ->
            /\ idx # 0
            /\ SnapshotOf(fs'[hydrophoneFile], old[idx], clock)
            /\ new[idx].sentAt = entry.detail.ts
       [] OTHER -> FALSE

\* C18: every successful mutating request (create, update, delete, snapshot
\* update, send) puts exactly one entry at the head of the audit log, whose
\* type names the operation and the entity; and the log is written only
\* after the collection write, so that whenever a step changes the log, a
\* step cut short by a failing process included, the mutation it logs is
\* in the files.
C18_OneLogEntryAfterWrite ==
  [][/\ (Answers /\ Mutated(req'.op, resp'.status))
          => /\ Len(Logs') = Len(Logs) + 1
             /\ Tail(Logs') = Logs
             /\ Head(Logs').type = req'.op
     /\ Logs' # Logs => Persisted]_vars

\* an attraction was created and then updated: two entries, the update's first
C18_Witness ==
  /\ req.op = "attraction_update"
  /\ resp.status = 200
  /\ Len(Logs) = 2
  /\ Logs[1].type = "attraction_update"
  /\ Logs[2].type = "attraction_create"
  /\ Logs[1].detail.id = req.id

\* the audit log holds the entry of a send of the record that stamped it
SendLogged(record, logs) ==
  \E i \in 1..Len(logs) :
    /\ logs[i].type = "hydro_history_send"
    /\ logs[i].detail.id = record.id
    /\ logs[i].detail.ts = record.sentAt

\* C19: a history record's sentAt is null from its creation until a send for
\* that record's id succeeds.  A create stores its record with sentAt null;
\* a send changes the record it targets and no other; a delete leaves the
\* records it keeps as they were; no other step changes the history; and
\* every record whose sentAt is not null was the target of a successful send.
C19_SentAtOnlyBySend ==
  [][LET old == fs[hydroHistoryFile].v
         new == fs'[hydroHistoryFile].v
         op == req'.op
         ok == Answers /\ resp'.status \in {200, 201, 204}
     IN /\ CASE ok /\ op = "hydro_history_create" ->
                  new = Append(old, resp'.body.v) /\ new[Len(new)].sentAt = Null
             [] ok /\ op = "hydro_history_send" ->
                  /\ Len(new) = Len(old)
                  /\ \A i \in 1..Len(old) :
                       i # FindIndex(old, req'.id) => new[i] = old[i]
             [] ok /\ op = "hydro_history_delete" ->
                  /\ Len(new) < Len(old)
                  /\ \A j \in 1..Len(new) : Occurrences(old, new[j]) >= Occurrences(new, new[j])
             [] OTHER -> new = old
        /\ \A i \in 1..Len(new) : new[i].sentAt # Null => SendLogged(new[i], Logs')]_vars

\* a record was sent, and a record created after that send has sentAt null
C19_Witness ==
  /\ req.op = "hydro_history_create"
  /\ resp.status = 201
  /\ Len(Docs(hydroHistoryFile)) = 2
  /\ Docs(hydroHistoryFile)[1].sentAt # Null
  /\ Docs(hydroHistoryFile)[2].sentAt = Null
  /\ Head(Logs).type = "hydro_history_create"

\* C20: from a start-up with no data files on, the snapshot that GET
\* /api/hydrophone/latest reads is a mapping, empty before the first update
\* or send and holding the ten snapshot fields after it, never a sequence.
C20_SnapshotIsMapping ==
  [][(Answers /\ req'.op = "hydrophone_latest")
       => /\ resp'.status = 200
          /\ resp'.body.t = "object"
          /\ DOMAIN resp'.body.v \in {{}, SnapshotFields}]_vars
====
